---- MODULE Spec2Model ----
(***************************************************************************)
(* Client-side session lifecycle of the SafeRide frontend:                 *)
(*   TokenStorage and the useAuth hook (src/saferide-frontend/src/hooks/   *)
(*   useAuth.ts), UserService (services/userService.ts) and the token of   *)
(*   ApiService (services/apiService.ts).                                  *)
(*                                                                         *)
(* JavaScript values are represented as follows.                           *)
(*   - strings are TLA+ strings; null/undefined in a string slot is NULL;  *)
(*   - the decimal strings kept under authTimestamp are sequences of       *)
(*     one-character strings, so that toString/parseInt are computed;      *)
(*   - objects are records whose DOMAIN is the set of own properties;      *)
(*     null/undefined in an object slot is NoUser;                         *)
(*   - localStorage is a function whose DOMAIN is the set of stored keys.  *)
(***************************************************************************)
EXTENDS Integers, Sequences, FiniteSets

\* ------------------------------------------------------------------ bounds
\* number of asynchronous invocations that may be suspended at once
MaxInFlight == 2
\* number of operations of the hook invoked in one run of the application
MaxOps == 4
\* number of awaiting operations invoked in one run under fair scheduling
MaxLiveOps == 3

\* ------------------------------------------------------- JavaScript values
NULL == "NULL"
NoUser == [null |-> TRUE]
EmptyObject == [k \in {} |-> NULL]

\* truthiness of a string-or-null value
Truthy(v) == v # NULL /\ v # ""
\* truthiness of an object-or-null value (every object is truthy)
TruthyObj(o) == o # NoUser
\* a || b on string-or-null values
Or(a, b) == IF Truthy(a) THEN a ELSE b
\* o.k : the property, or undefined
Prop(o, k) == IF o # NoUser /\ k \in DOMAIN o THEN o[k] ELSE NULL
\* delete o.k
Delete_kept(o, k) == o
Delete(o, k) == [f \in (DOMAIN o) \ {k} |-> o[f]]

DigitChars == <<"0", "1", "2", "3", "4", "5", "6", "7", "8", "9">>
DigitSet == {DigitChars[i] : i \in 1..10}
CharVal(c) == (CHOOSE i \in 1..10 : DigitChars[i] = c) - 1

\* Number.prototype.toString() of a non-negative integer
RECURSIVE toString(_)
toString(n) ==
  IF n < 10 THEN <<DigitChars[n + 1]>>
  ELSE Append(toString(n \div 10), DigitChars[(n % 10) + 1])

\* parseInt(s): optional sign, then the longest prefix of decimal digits;
\* NaN when there is no digit
NaN == [nan |-> TRUE, val |-> 0]
Num(n) == [nan |-> FALSE, val |-> n]
RECURSIVE ParseDigits(_, _, _)
ParseDigits(s, i, acc) ==
  IF i > Len(s) \/ s[i] \notin DigitSet THEN acc
  ELSE ParseDigits(s, i + 1, acc * 10 + CharVal(s[i]))
parseInt(s) ==
  LET neg == Len(s) > 0 /\ s[1] = "-"
      start == IF Len(s) > 0 /\ s[1] \in {"-", "+"} THEN 2 ELSE 1
  IN IF start > Len(s) \/ s[start] \notin DigitSet THEN NaN
     ELSE IF neg THEN Num(0 - ParseDigits(s, start, 0))
     ELSE Num(ParseDigits(s, start, 0))

\* ------------------------------------------------------------ TokenStorage
\* 24 * 60 * 60 * 1000 ms
maxAge == 24 * 60 * 60 * 1000

getItem(store, k) == IF k \in DOMAIN store THEN store[k] ELSE NULL
setItem(store, k, v) == [f \in (DOMAIN store) \cup {k} |-> IF f = k THEN v ELSE store[f]]
removeItem(store, k) == [f \in (DOMAIN store) \ {k} |-> store[f]]
EmptyStore == [k \in {} |-> NULL]

\* the ways a saveToken can go: both setItem succeed, the first throws
\* (nothing written), the second throws (authToken written alone).
\* With storage access denied every call throws at once.
SaveFaults(den) == IF den THEN {"first"} ELSE {"none", "first", "second"}

saveToken_noTimestamp(store, token, t, fault) ==
  CASE fault = "first" -> store
    [] OTHER -> setItem(store, "authToken", token)

saveToken_noOverwrite(store, token, t, fault) ==
  CASE fault = "first" -> store
    [] "authToken" \in DOMAIN store -> store
    [] fault = "second" -> setItem(store, "authToken", token)
    [] OTHER -> setItem(setItem(store, "authToken", token),
                        "authTimestamp", toString(t))

saveToken(store, token, t, fault) ==
  CASE fault = "first" -> store
    [] fault = "second" -> setItem(store, "authToken", token)
    [] OTHER -> setItem(setItem(store, "authToken", token),
                        "authTimestamp", toString(t))

getToken(store, den) ==
  IF den THEN NULL ELSE getItem(store, "authToken")

TokenStorage_clearToken_tokenOnly(store, den) ==
  IF den THEN store ELSE removeItem(store, "authToken")

TokenStorage_clearToken_stampOnly(store, den) ==
  IF den THEN store ELSE removeItem(store, "authTimestamp")

TokenStorage_clearToken(store, den) ==
  IF den THEN store
  ELSE removeItem(removeItem(store, "authToken"), "authTimestamp")

isTokenExpired_atLeast(store, t, den) ==
  IF den THEN TRUE
  ELSE IF "authTimestamp" \notin DOMAIN store THEN TRUE
  ELSE IF store["authTimestamp"] = <<>> THEN TRUE
  ELSE LET p == parseInt(store["authTimestamp"])
       IN IF p.nan THEN FALSE ELSE (t - p.val) >= maxAge

isTokenExpired_noMissingCheck(store, t, den) ==
  IF den THEN TRUE
  ELSE IF "authTimestamp" \notin DOMAIN store THEN FALSE
  ELSE LET p == parseInt(store["authTimestamp"])
       IN IF p.nan THEN FALSE ELSE (t - p.val) > maxAge

isTokenExpired(store, t, den) ==
  IF den THEN TRUE
  ELSE IF "authTimestamp" \notin DOMAIN store THEN TRUE
  ELSE IF store["authTimestamp"] = <<>> THEN TRUE
  ELSE LET p == parseInt(store["authTimestamp"])
       IN IF p.nan THEN FALSE ELSE (t - p.val) > maxAge

\* -------------------------------------------------------------- ApiService
setToken_dropped(token) == NULL
setToken(token) == token
apiService_clearToken == NULL

\* `Bearer ${token}`
Bearer(token) == <<"Bearer", token>>

getHeaders_always(token) ==
  [ContentType |-> "application/json", Authorization |-> Bearer(token)]

\* private getHeaders(): Authorization is added only for a truthy token
getHeaders(token) ==
  IF Truthy(token)
  THEN [ContentType |-> "application/json", Authorization |-> Bearer(token)]
  ELSE [ContentType |-> "application/json"]

\* { ...a, ...b }
Spread(a, b) ==
  [k \in DOMAIN a \cup DOMAIN b |-> IF k \in DOMAIN b THEN b[k] ELSE a[k]]

\* headers of the config that request() hands to fetch; the public methods
\* pass options without headers
requestHeaders(token) == Spread(getHeaders(token), EmptyObject)

\* tokens handed to setToken(token: string)
ApiTokens == {"tok1", "tok2", ""}

\* ------------------------------------------------------------- UserService
\* What fetch() and response.json() can do.
\*   [kind |-> "throw"]                       the fetch rejects
\*   [kind |-> "http", ok, json, body]        a response; json = FALSE when
\*                                            response.json() rejects
UserWithPassword == [id |-> "1", password |-> "x"]
UserWithToken == [id |-> "1", token |-> "utok"]
Users == {UserWithPassword, UserWithToken}
AccessTokens == {"tok1", "tok2", ""}
Details == {"Invalid credentials", ""}

LoginBodies ==
  { [access_token |-> a, user |-> UserWithPassword] : a \in AccessTokens }
    \cup { [user |-> u] : u \in Users }
    \cup { [access_token |-> "tok1"] }
ErrorBodies == { [detail |-> d] : d \in Details } \cup {EmptyObject}

LoginFetch ==
  { [kind |-> "throw"] }
    \cup { [kind |-> "http", ok |-> TRUE, json |-> TRUE, body |-> b] : b \in LoginBodies }
    \cup { [kind |-> "http", ok |-> TRUE, json |-> FALSE, body |-> EmptyObject] }
    \cup { [kind |-> "http", ok |-> FALSE, json |-> TRUE, body |-> b] : b \in ErrorBodies }
    \cup { [kind |-> "http", ok |-> FALSE, json |-> FALSE, body |-> EmptyObject] }

MeFetch ==
  { [kind |-> "throw"] }
    \cup { [kind |-> "http", ok |-> TRUE, json |-> TRUE, body |-> u] : u \in Users }
    \cup { [kind |-> "http", ok |-> TRUE, json |-> FALSE, body |-> EmptyObject] }
    \cup { [kind |-> "http", ok |-> FALSE, json |-> TRUE, body |-> EmptyObject] }

LogoutFetch ==
  { [kind |-> "throw"],
    [kind |-> "http", ok |-> TRUE, json |-> TRUE, body |-> EmptyObject],
    [kind |-> "http", ok |-> FALSE, json |-> TRUE, body |-> EmptyObject] }

\* body.k of a parsed JSON body
Field(body, k) == IF k \in DOMAIN body THEN body[k] ELSE NULL
FieldObj(body, k) == IF k \in DOMAIN body THEN body[k] ELSE NoUser

authenticateUser_noDetail(f) ==
  IF f.kind = "throw"
    THEN [success |-> FALSE, message |-> "Network error during login",
          user |-> NoUser, token |-> NULL]
  ELSE IF ~f.ok
    THEN [success |-> FALSE, message |-> "Login failed",
          user |-> NoUser, token |-> NULL]
  ELSE IF ~f.json
    THEN [success |-> FALSE, message |-> "Network error during login",
          user |-> NoUser, token |-> NULL]
  ELSE [success |-> TRUE, message |-> "Login successful",
        user |-> FieldObj(f.body, "user"),
        token |-> Field(f.body, "access_token")]

authenticateUser_noCatchMessage(f) ==
  IF f.kind = "throw"
    THEN [success |-> FALSE, message |-> NULL, user |-> NoUser, token |-> NULL]
  ELSE IF ~f.ok
    THEN LET errorData == IF f.json THEN f.body ELSE EmptyObject
         IN [success |-> FALSE,
             message |-> Or(Field(errorData, "detail"), "Login failed"),
             user |-> NoUser, token |-> NULL]
  ELSE IF ~f.json
    THEN [success |-> FALSE, message |-> "Network error during login",
          user |-> NoUser, token |-> NULL]
  ELSE [success |-> TRUE, message |-> "Login successful",
        user |-> FieldObj(f.body, "user"),
        token |-> Field(f.body, "access_token")]

\* AuthResponse returned by authenticateUser; it never rejects
authenticateUser(f) ==
  IF f.kind = "throw"
    THEN [success |-> FALSE, message |-> "Network error during login",
          user |-> NoUser, token |-> NULL]
  ELSE IF ~f.ok
    THEN LET errorData == IF f.json THEN f.body ELSE EmptyObject
         IN [success |-> FALSE,
             message |-> Or(Field(errorData, "detail"), "Login failed"),
             user |-> NoUser, token |-> NULL]
  ELSE IF ~f.json
    THEN [success |-> FALSE, message |-> "Network error during login",
          user |-> NoUser, token |-> NULL]
  ELSE [success |-> TRUE, message |-> "Login successful",
        user |-> FieldObj(f.body, "user"),
        token |-> Field(f.body, "access_token")]

getCurrentUser_noOkCheck(f) ==
  IF f.kind = "throw" THEN NoUser
  ELSE IF ~f.json THEN NoUser
  ELSE f.body

\* User | null returned by getCurrentUser; it never rejects
getCurrentUser(f) ==
  IF f.kind = "throw" THEN NoUser
  ELSE IF ~f.ok THEN NoUser
  ELSE IF ~f.json THEN NoUser
  ELSE f.body

\* how the promise of userService.logout() settles: it awaits the fetch and
\* looks at nothing else
userService_logout(f) == IF f.kind = "throw" THEN "rejected" ELSE "resolved"

\* ------------------------------------------------------------------ state
VARIABLES
  authState,   \* useState<AuthState>: [user, token, isLoading, error]
  ls,          \* localStorage: stored keys |-> values
  denied,      \* access to localStorage is denied: every call on it throws
  apiToken,    \* ApiService.token
  now,         \* Date.now()
  mounted,     \* the mount effect has run
  inflight,    \* suspended invocations: [op, tok] |-> how many; a refresh
               \* also records auth, isAuthenticated when it was invoked; a
               \* request of the API client is [op, headers]
  rejected,    \* operations whose promise rejected to the caller
  last,        \* the step taken last: [op, in], with fault (of the save),
               \* auth (isAuthenticated before the step), from (auth of the
               \* settled call), out (value returned), after (op and in of
               \* the step before)
  logoutRun,   \* completed logouts in a row (capped at 2)
  ops,         \* operations of the hook invoked so far
  issuedAt     \* Date.now() of the setItem that wrote authTimestamp, or NoTime

vars == <<authState, ls, denied, apiToken, now, mounted, inflight, rejected,
          last, logoutRun, ops, issuedAt>>

\* values a token slot can hold
TokenVals == {"tok1", "tok2", "utok", "mock-token-123"}
\* a record left in storage by an earlier run of the application
StoredTokens == {"tok1"}
issuedAt0 == 0
StartTimes == {issuedAt0 + maxAge, issuedAt0 + maxAge + 1}

Calls ==
  { [op |-> "mount", tok |-> t] : t \in TokenVals }
    \cup { [op |-> "login", tok |-> NULL], [op |-> "logout", tok |-> NULL] }
    \cup { [op |-> "refresh", tok |-> t, auth |-> a] :
              t \in TokenVals \cup {NULL}, a \in BOOLEAN }
    \cup { [op |-> "request", headers |-> requestHeaders(t)] :
              t \in ApiTokens \cup {NULL} }

RECURSIVE SumOver(_, _)
SumOver(b, S) ==
  IF S = {} THEN 0
  ELSE LET c == CHOOSE x \in S : TRUE IN b[c] + SumOver(b, S \ {c})
InFlight == SumOver(inflight, Calls)
Issue(c) == [inflight EXCEPT ![c] = @ + 1]
Settle(c) == [inflight EXCEPT ![c] = @ - 1]

NoTime == 0 - 1
\* issuedAt after saveToken at time t, after clearToken
saveStamp(old, t, fault) == IF fault = "none" THEN t ELSE old
clearStamp(old, den) == IF den THEN old ELSE NoTime

cleared_stillLoading ==
  [user |-> NoUser, token |-> NULL, isLoading |-> TRUE, error |-> NULL]
cleared_withError ==
  [user |-> NoUser, token |-> NULL, isLoading |-> FALSE,
   error |-> "Authentication failed"]
\* { user: null, token: null, isLoading: false, error: null }
cleared == [user |-> NoUser, token |-> NULL, isLoading |-> FALSE, error |-> NULL]

\* const isAuthenticated = Boolean(authState.user && authState.token)
isAuthenticated == TruthyObj(authState.user) /\ Truthy(authState.token)

Init ==
  /\ authState = [user |-> NoUser, token |-> NULL, isLoading |-> TRUE, error |-> NULL]
  /\ denied \in BOOLEAN
  /\ \E keys \in {{}, {"authToken"}, {"authToken", "authTimestamp"}}, t \in StoredTokens :
       ls = [k \in keys |->
               IF k = "authToken" THEN t ELSE toString(issuedAt0)]
  /\ denied => ls = EmptyStore
  /\ apiToken = NULL
  /\ now \in StartTimes
  /\ mounted = FALSE
  /\ inflight = [c \in Calls |-> 0]
  /\ rejected = {}
  /\ last = [op |-> "init", in |-> EmptyObject]
  /\ logoutRun = 0
  /\ ops = 0
  /\ issuedAt = IF "authTimestamp" \in DOMAIN ls THEN issuedAt0 ELSE NoTime

\* --------------------------------------------------------- the useAuth hook
loginCatch_rethrow(threw) == IF threw THEN "rejected" ELSE "resolved"
\* try { ... } catch (error) { ... } of login: how the promise settles when
\* the try block threw
loginCatch(threw) == "resolved"

logoutCatch_rethrow(svc) == svc
\* try { ... } catch (error) { ... } finally { ... } of logout: how the
\* promise settles when userService.logout() settled as svc
logoutCatch(svc) == "resolved"

Rejects(op, settled) == IF settled = "rejected" THEN rejected \cup {op} ELSE rejected

loginToken_nullish(response) ==
  IF response.token # NULL THEN response.token
  ELSE Or(Prop(response.user, "token"), "mock-token-123")
\* const token = response.token || response.user.token || 'mock-token-123'
loginToken(response) ==
  Or(response.token, Or(Prop(response.user, "token"), "mock-token-123"))

\* the mount effect up to its first await (or to its early return)
mount ==
  /\ ~mounted
  /\ mounted' = TRUE
  /\ LET storedToken == getToken(ls, denied)
     IN IF ~Truthy(storedToken) \/ isTokenExpired(ls, now, denied)
        THEN /\ ls' = TokenStorage_clearToken(ls, denied)
             /\ issuedAt' = clearStamp(issuedAt, denied)
             /\ apiToken' = apiService_clearToken
             /\ authState' = cleared
             /\ inflight' = inflight
        ELSE /\ apiToken' = setToken(storedToken)
             /\ authState' = [authState EXCEPT !.isLoading = TRUE]
             /\ inflight' = Issue([op |-> "mount", tok |-> storedToken])
             /\ UNCHANGED <<ls, issuedAt>>
  /\ last' = [op |-> "mount", in |-> [store |-> ls]]
  /\ logoutRun' = 0
  /\ UNCHANGED <<denied, now, rejected, ops>>

\* the mount effect after await userService.getCurrentUser(storedToken)
mountResume(c, f) ==
  /\ c.op = "mount" /\ inflight[c] > 0
  /\ inflight' = Settle(c)
  /\ LET user == getCurrentUser(f)
     IN IF TruthyObj(user)
        THEN /\ authState' = [user |-> Delete(user, "password"), token |-> c.tok,
                              isLoading |-> FALSE, error |-> NULL]
             /\ UNCHANGED <<ls, apiToken, issuedAt>>
        ELSE /\ ls' = TokenStorage_clearToken(ls, denied)
             /\ issuedAt' = clearStamp(issuedAt, denied)
             /\ apiToken' = apiService_clearToken
             /\ authState' = cleared
  /\ last' = [op |-> "mountResume", in |-> f]
  /\ logoutRun' = 0
  /\ UNCHANGED <<denied, now, mounted, rejected, ops>>

\* login(email, password) up to await userService.authenticateUser
login ==
  /\ ops < MaxOps /\ ops' = ops + 1
  /\ mounted /\ InFlight < MaxInFlight
  /\ authState' = [authState EXCEPT !.isLoading = TRUE, !.error = NULL]
  /\ inflight' = Issue([op |-> "login", tok |-> NULL])
  /\ last' = [op |-> "login", in |-> EmptyObject]
  /\ logoutRun' = 0
  /\ UNCHANGED <<ls, denied, apiToken, now, mounted, rejected, issuedAt>>

\* login called with an argument that is not a string: email.trim() throws
\* inside the try block, before anything is awaited
loginThrow ==
  /\ ops < MaxOps /\ ops' = ops + 1
  /\ mounted
  /\ authState' = [authState EXCEPT !.isLoading = FALSE,
                                    !.error = "An unexpected error occurred"]
  /\ rejected' = Rejects("login", loginCatch(TRUE))
  /\ last' = [op |-> "loginThrow", in |-> EmptyObject]
  /\ logoutRun' = 0
  /\ UNCHANGED <<ls, denied, apiToken, now, mounted, inflight, issuedAt>>

\* login after await userService.authenticateUser(credentials)
loginResume(f, fault) ==
  LET c == [op |-> "login", tok |-> NULL]
      response == authenticateUser(f)
  IN /\ inflight[c] > 0
     /\ inflight' = Settle(c)
     /\ IF response.success /\ TruthyObj(response.user)
        THEN LET token == loginToken(response)
             IN /\ fault \in SaveFaults(denied)
                /\ ls' = saveToken(ls, token, now, fault)
                /\ issuedAt' = saveStamp(issuedAt, now, fault)
                /\ apiToken' = setToken(token)
                /\ authState' = [user |-> Delete(response.user, "password"),
                                 token |-> token,
                                 isLoading |-> FALSE, error |-> NULL]
        ELSE /\ fault = "none"
             /\ authState' = [authState EXCEPT
                                !.user = NoUser, !.token = NULL,
                                !.isLoading = FALSE,
                                !.error = Or(response.message, "Authentication failed")]
             /\ UNCHANGED <<ls, apiToken, issuedAt>>
     /\ rejected' = Rejects("login", loginCatch(FALSE))
     /\ last' = [op |-> "loginResume", in |-> f, fault |-> fault]
     /\ logoutRun' = 0
     /\ UNCHANGED <<denied, now, mounted, ops>>

\* logout() up to await userService.logout()
logout ==
  /\ ops < MaxOps /\ ops' = ops + 1
  /\ mounted /\ InFlight < MaxInFlight
  /\ inflight' = Issue([op |-> "logout", tok |-> NULL])
  /\ last' = [op |-> "logout", in |-> EmptyObject]
  /\ UNCHANGED <<authState, ls, denied, apiToken, now, mounted, rejected, logoutRun, issuedAt>>

\* logout after await userService.logout(): catch, then finally
logoutResume(f) ==
  LET c == [op |-> "logout", tok |-> NULL]
  IN /\ inflight[c] > 0
     /\ inflight' = Settle(c)
     /\ ls' = TokenStorage_clearToken(ls, denied)
     /\ issuedAt' = clearStamp(issuedAt, denied)
     /\ apiToken' = apiService_clearToken
     /\ authState' = cleared
     /\ rejected' = Rejects("logout", logoutCatch(userService_logout(f)))
     /\ last' = [op |-> "logoutResume", in |-> f, auth |-> isAuthenticated]
     /\ logoutRun' = IF logoutRun < 2 THEN logoutRun + 1 ELSE 2
     /\ UNCHANGED <<denied, now, mounted, ops>>

\* updateUser(user)
UpdateUsers == { [id |-> "1", name |-> "renamed"] }
updateUser(user) ==
  /\ ops < MaxOps /\ ops' = ops + 1
  /\ mounted
  /\ authState' = [authState EXCEPT !.user = user]
  /\ last' = [op |-> "updateUser", in |-> user]
  /\ logoutRun' = 0
  /\ UNCHANGED <<ls, denied, apiToken, now, mounted, inflight, rejected, issuedAt>>

\* refreshUser() up to await userService.getCurrentUser(authState.token || undefined)
refreshUser ==
  /\ ops < MaxOps /\ ops' = ops + 1
  /\ mounted /\ InFlight < MaxInFlight
  /\ authState' = [authState EXCEPT !.isLoading = TRUE]
  /\ inflight' = Issue([op |-> "refresh", tok |-> authState.token,
                        auth |-> isAuthenticated])
  /\ last' = [op |-> "refreshUser", in |-> EmptyObject]
  /\ logoutRun' = 0
  /\ UNCHANGED <<ls, denied, apiToken, now, mounted, rejected, issuedAt>>

\* refreshUser after the await; c.tok is authState.token of the render that
\* created the callback
refreshResume(c, f) ==
  /\ c.op = "refresh" /\ inflight[c] > 0
  /\ inflight' = Settle(c)
  /\ LET user == getCurrentUser(f)
     IN IF TruthyObj(user)
        THEN /\ authState' = [user |-> Delete(user, "password"), token |-> c.tok,
                              isLoading |-> FALSE, error |-> NULL]
             /\ UNCHANGED <<ls, apiToken, issuedAt>>
        ELSE /\ ls' = TokenStorage_clearToken(ls, denied)
             /\ issuedAt' = clearStamp(issuedAt, denied)
             /\ apiToken' = apiService_clearToken
             /\ authState' = cleared
  /\ last' = [op |-> "refreshResume", in |-> f, auth |-> isAuthenticated,
               from |-> c.auth]
  /\ logoutRun' = 0
  /\ UNCHANGED <<denied, now, mounted, rejected, ops>>

\* setError(error) and clearError()
ErrorMessages == {"Session expired"}
setError_stopsLoading(error) ==
  /\ ops < MaxOps /\ ops' = ops + 1
  /\ mounted
  /\ authState' = [authState EXCEPT !.error = error, !.isLoading = FALSE]
  /\ last' = [op |-> "setError", in |-> [error |-> error]]
  /\ logoutRun' = 0
  /\ UNCHANGED <<ls, denied, apiToken, now, mounted, inflight, rejected, issuedAt>>

setError(error) ==
  /\ ops < MaxOps /\ ops' = ops + 1
  /\ mounted
  /\ authState' = [authState EXCEPT !.error = error]
  /\ last' = [op |-> "setError", in |-> [error |-> error]]
  /\ logoutRun' = 0
  /\ UNCHANGED <<ls, denied, apiToken, now, mounted, inflight, rejected, issuedAt>>

clearError ==
  /\ ops < MaxOps /\ ops' = ops + 1
  /\ mounted
  /\ authState' = [authState EXCEPT !.error = NULL]
  /\ last' = [op |-> "clearError", in |-> EmptyObject]
  /\ logoutRun' = 0
  /\ UNCHANGED <<ls, denied, apiToken, now, mounted, inflight, rejected, issuedAt>>

Next ==
  \/ mount
  \/ \E c \in Calls, f \in MeFetch : mountResume(c, f)
  \/ login
  \/ loginThrow
  \/ \E f \in LoginFetch, fault \in {"none", "first", "second"} : loginResume(f, fault)
  \/ logout
  \/ \E f \in LogoutFetch : logoutResume(f)
  \/ \E u \in UpdateUsers : updateUser(u)
  \/ refreshUser
  \/ \E c \in Calls, f \in MeFetch : refreshResume(c, f)
  \/ \E e \in ErrorMessages : setError(e)
  \/ clearError

Spec == Init /\ [][Next]_vars

\* ------------------------------------- the operations that await the backend
\* one login answer of each kind: success, rejection, transport failure
LiveLoginFetch ==
  { [kind |-> "http", ok |-> TRUE, json |-> TRUE,
     body |-> [access_token |-> "tok2", user |-> UserWithPassword]],
    [kind |-> "http", ok |-> FALSE, json |-> TRUE,
     body |-> [detail |-> "Invalid credentials"]],
    [kind |-> "throw"] }
LiveFaults == {"none", "first"}

loginAnswered == \E f \in LiveLoginFetch, fault \in LiveFaults : loginResume(f, fault)
logoutAnswered == \E f \in LogoutFetch : logoutResume(f)
mountAnswered == \E c \in Calls, f \in MeFetch : mountResume(c, f)
refreshAnswered == \E c \in Calls, f \in MeFetch : refreshResume(c, f)

NextLive ==
  \/ mount
  \/ mountAnswered
  \/ ops < MaxLiveOps /\ login
  \/ loginAnswered
  \/ ops < MaxLiveOps /\ logout
  \/ logoutAnswered
  \/ ops < MaxLiveOps /\ refreshUser
  \/ refreshAnswered

\* React runs the mount effect after the first render, and every backend
\* call that was issued returns or fails
Fairness ==
  /\ WF_vars(mount)
  /\ WF_vars(mountAnswered)
  /\ WF_vars(loginAnswered)
  /\ WF_vars(logoutAnswered)
  /\ WF_vars(refreshAnswered)

SpecLive == Init /\ [][NextLive]_vars /\ Fairness

\* ------------------------------------------------- TokenStorage on its own
\* The four operations of TokenStorage called directly, at times that move
\* across the 24-hour limit; last.out is what the call returned.
StoreStartTimes == {issuedAt0, issuedAt0 + maxAge - 1, issuedAt0 + maxAge,
                    issuedAt0 + maxAge + 1}
ClockSteps == {1, maxAge}
SavedTokens == {"tok1", "tok2"}

InitStore ==
  /\ authState = [user |-> NoUser, token |-> NULL, isLoading |-> TRUE, error |-> NULL]
  /\ denied \in BOOLEAN
  /\ \E keys \in {{}, {"authToken"}, {"authToken", "authTimestamp"}}, t \in StoredTokens :
       ls = [k \in keys |->
               IF k = "authToken" THEN t ELSE toString(issuedAt0)]
  /\ denied => ls = EmptyStore
  /\ apiToken = NULL
  /\ now \in StoreStartTimes
  /\ mounted = FALSE
  /\ inflight = [c \in Calls |-> 0]
  /\ rejected = {}
  /\ last = [op |-> "init", in |-> EmptyObject]
  /\ logoutRun = 0
  /\ ops = 0
  /\ issuedAt = IF "authTimestamp" \in DOMAIN ls THEN issuedAt0 ELSE NoTime

StoreFrame == UNCHANGED <<authState, denied, apiToken, mounted, inflight,
                          rejected, logoutRun>>

storeSave(token, fault) ==
  /\ ops < MaxOps /\ ops' = ops + 1
  /\ fault \in SaveFaults(denied)
  /\ ls' = saveToken(ls, token, now, fault)
  /\ issuedAt' = saveStamp(issuedAt, now, fault)
  /\ last' = [op |-> "saveToken", in |-> [token |-> token, fault |-> fault]]
  /\ now' = now
  /\ StoreFrame

storeGet ==
  /\ ops < MaxOps /\ ops' = ops + 1
  /\ last' = [op |-> "getToken", in |-> EmptyObject,
              out |-> getToken(ls, denied)]
  /\ UNCHANGED <<ls, issuedAt, now>>
  /\ StoreFrame

storeClear ==
  /\ ops < MaxOps /\ ops' = ops + 1
  /\ ls' = TokenStorage_clearToken(ls, denied)
  /\ issuedAt' = clearStamp(issuedAt, denied)
  /\ last' = [op |-> "clearToken", in |-> EmptyObject]
  /\ now' = now
  /\ StoreFrame

storeIsExpired ==
  /\ ops < MaxOps /\ ops' = ops + 1
  /\ last' = [op |-> "isTokenExpired", in |-> EmptyObject,
              out |-> isTokenExpired(ls, now, denied),
              after |-> [op |-> last.op, in |-> last.in]]
  /\ UNCHANGED <<ls, issuedAt, now>>
  /\ StoreFrame

\* time passes
tick(d) ==
  /\ ops < MaxOps /\ ops' = ops + 1
  /\ now' = now + d
  /\ last' = [op |-> "tick", in |-> EmptyObject]
  /\ UNCHANGED <<ls, issuedAt>>
  /\ StoreFrame

NextStore ==
  \/ \E t \in SavedTokens, fault \in {"none", "first", "second"} : storeSave(t, fault)
  \/ storeGet
  \/ storeClear
  \/ storeIsExpired
  \/ \E d \in ClockSteps : tick(d)

SpecStore == InitStore /\ [][NextStore]_vars

\* ------------------------------------------------ the API client alone
ApiFrame == UNCHANGED <<authState, ls, denied, now, mounted, rejected,
                        logoutRun, issuedAt>>

apiSetToken(token) ==
  /\ ops < MaxOps /\ ops' = ops + 1
  /\ apiToken' = setToken(token)
  /\ last' = [op |-> "setToken", in |-> [token |-> token]]
  /\ inflight' = inflight
  /\ ApiFrame

apiClearToken ==
  /\ ops < MaxOps /\ ops' = ops + 1
  /\ apiToken' = apiService_clearToken
  /\ last' = [op |-> "clearToken", in |-> EmptyObject]
  /\ inflight' = inflight
  /\ ApiFrame

\* request() up to await fetch(url, config)
apiRequest ==
  /\ ops < MaxOps /\ ops' = ops + 1
  /\ InFlight < MaxInFlight
  /\ inflight' = Issue([op |-> "request", headers |-> requestHeaders(apiToken)])
  /\ last' = [op |-> "request", in |-> EmptyObject]
  /\ apiToken' = apiToken
  /\ ApiFrame

\* fetch settles: the request the server saw is the one that was issued
apiResponse(c) ==
  /\ c.op = "request" /\ inflight[c] > 0
  /\ inflight' = Settle(c)
  /\ last' = [op |-> "response", in |-> c.headers]
  /\ UNCHANGED <<apiToken, ops>>
  /\ ApiFrame

NextApi ==
  \/ \E t \in ApiTokens : apiSetToken(t)
  \/ apiClearToken
  \/ apiRequest
  \/ \E c \in Calls : apiResponse(c)

SpecApi == Init /\ [][NextApi]_vars

\* ================================================================= claims
\* the login response is the documented success response {access_token, user}
LoginSucceeded(f) ==
  /\ f.kind = "http" /\ f.ok /\ f.json
  /\ "user" \in DOMAIN f.body
  /\ Truthy(Field(f.body, "access_token"))
\* the login was rejected with a non-2xx response carrying a detail message
LoginRejected(f) ==
  /\ f.kind = "http" /\ ~f.ok /\ f.json
  /\ Truthy(Field(f.body, "detail"))
\* the login did not take the success branch
LoginFailed(f) ==
  LET response == authenticateUser(f)
  IN ~(response.success /\ TruthyObj(response.user))

\* C1: user and token are either both present or both null in every
\* reachable session state.
C1_NeverPartiallyAuthenticated ==
  (authState.user = NoUser) <=> (authState.token = NULL)

\* C2: isAuthenticated equals (user != null AND token != null) in every
\* reachable state, and the session token is never the empty string.
C2_IsAuthenticatedIffBothPresent ==
  /\ isAuthenticated <=> (authState.user # NoUser /\ authState.token # NULL)
  /\ authState.token # ""
C2_Witness ==
  /\ last.op = "loginResume"
  /\ last.in.kind = "http" /\ last.in.ok /\ last.in.json
  /\ Field(last.in.body, "access_token") = ""
  /\ isAuthenticated

C4_ExpiryLaw ==
  last.op = "isTokenExpired" =>
    last.out = (\/ "authTimestamp" \notin DOMAIN ls
                \/ now - issuedAt > 24 * 60 * 60 * 1000)
C4_Witness ==
  /\ last.op = "isTokenExpired"
  /\ "authTimestamp" \in DOMAIN ls
  /\ now - issuedAt = 24 * 60 * 60 * 1000 + 1
  /\ last.out = TRUE

\* C5 as claimed: at now - issuedAt exactly 24 hours isTokenExpired()
\* reports the token as expired.
C5_ExpiredAtExactly24h ==
  (/\ last.op = "isTokenExpired"
   /\ "authTimestamp" \in DOMAIN ls
   /\ now - issuedAt = 86400000) => last.out = TRUE
\* C5 as amended: at now - issuedAt exactly 24 hours isTokenExpired() reports
\* the token as not expired; one millisecond later it reports it expired.
C5_NotExpiredAtExactly24h ==
  (last.op = "isTokenExpired" /\ "authTimestamp" \in DOMAIN ls) =>
     /\ now - issuedAt = 86400000 => last.out = FALSE
     /\ now - issuedAt = 86400001 => last.out = TRUE
C5_Witness ==
  /\ last.op = "isTokenExpired"
  /\ "authTimestamp" \in DOMAIN ls
  /\ now - issuedAt = 86400000
  /\ last.out = FALSE

\* the record {token, timestamp} of a save made now is in the store
Persisted(token) ==
  /\ getItem(ls, "authToken") = token
  /\ "authTimestamp" \in DOMAIN ls /\ issuedAt = now

\* C6 as claimed: after a successful login the returned token is persisted
\* in the Token Store and set as the API client token, and the session is
\* Authenticated with that token, isLoading false and error null.
C6_LoginSuccessPersists ==
  (last.op = "loginResume" /\ LoginSucceeded(last.in)) =>
     /\ Persisted(last.in.body.access_token)
     /\ apiToken = last.in.body.access_token
     /\ authState.token = last.in.body.access_token
     /\ authState.user # NoUser
     /\ authState.isLoading = FALSE /\ authState.error = NULL
\* C6 as amended: after a successful login the returned token is set as the
\* API client token and the session is Authenticated with that token,
\* isLoading false and error null; the token is persisted in the Token
\* Store when no storage write fails.
C6_LoginSuccess ==
  (last.op = "loginResume" /\ LoginSucceeded(last.in)) =>
     /\ last.fault = "none" => Persisted(last.in.body.access_token)
     /\ apiToken = last.in.body.access_token
     /\ authState.token = last.in.body.access_token
     /\ authState.user # NoUser
     /\ authState.isLoading = FALSE /\ authState.error = NULL
C6_Witness ==
  /\ last.op = "loginResume" /\ LoginSucceeded(last.in)
  /\ last.fault = "none"
  /\ Persisted("tok2") /\ apiToken = "tok2" /\ authState.token = "tok2"

\* C7: a login rejected with a non-2xx response carrying a detail message
\* leaves user null, token null, isLoading false, sets error to that
\* message, and changes neither the Token Store nor the API client token.
C7_LoginRejected ==
  [][(last'.op = "loginResume" /\ LoginRejected(last'.in)) =>
       /\ authState' = [user |-> NoUser, token |-> NULL, isLoading |-> FALSE,
                        error |-> last'.in.body.detail]
       /\ ls' = ls
       /\ apiToken' = apiToken]_vars
C7_Witness ==
  /\ last.op = "loginResume" /\ LoginRejected(last.in)
  /\ authState.error = "Invalid credentials"
  /\ ~isAuthenticated

\* C8: login() never rejects to its caller, and every failed login leaves a
\* message in the error field.
C8_LoginNeverThrows ==
  /\ "login" \notin rejected
  /\ last.op = "loginThrow" => authState.error # NULL
  /\ (last.op = "loginResume" /\ LoginFailed(last.in)) => authState.error # NULL
C8_Witness ==
  /\ last.op = "loginResume" /\ last.in.kind = "throw"
  /\ authState.error = "Network error during login"
  /\ "login" \notin rejected

\* C9: once startup has begun, isLoading is true exactly while a network
\* call of startup, login, logout or refreshUser is in flight.
C9_LoadingWhileInFlight ==
  mounted => (authState.isLoading <=> InFlight > 0)

\* C10: logout() never rejects, and whatever the backend call did it ends
\* with user null, token null, the Token Store empty and no API client
\* token, so a second logout in a row ends in the state of the first.
C10_LogoutIdempotent ==
  /\ "logout" \notin rejected
  /\ last.op = "logoutResume" =>
       /\ authState = cleared
       /\ ls = EmptyStore
       /\ apiToken = NULL
C10_Witness ==
  /\ last.op = "logoutResume" /\ last.in.kind = "throw"
  /\ logoutRun = 2
  /\ authState = cleared /\ ls = EmptyStore /\ apiToken = NULL

\* the who-am-I call was answered 2xx with a user
MeConfirmed(f) == f.kind = "http" /\ f.ok /\ f.json
\* the who-am-I call was rejected (non-2xx) or failed
MeFailed(f) == f.kind = "throw" \/ ~f.ok \/ ~f.json

\* C11: a logout whose backend call returns or fails while the session is
\* Authenticated clears the Token Store, the API client token and the
\* session (user, token, error null, isLoading false).
C11_LogoutClearsEverything ==
  (last.op = "logoutResume" /\ last.auth) =>
     /\ authState.user = NoUser /\ authState.token = NULL
     /\ authState.error = NULL /\ authState.isLoading = FALSE
     /\ DOMAIN ls = {}
     /\ apiToken = NULL
C11_Witness ==
  /\ last.op = "logoutResume" /\ last.auth
  /\ last.in.kind = "throw"
  /\ ~isAuthenticated /\ DOMAIN ls = {} /\ apiToken = NULL

\* the Token Store holds no token, or its record is expired
AbsentOrExpired ==
  \/ denied
  \/ "authToken" \notin DOMAIN ls
  \/ "authTimestamp" \notin DOMAIN ls
  \/ now - issuedAt > 86400000

MountCallAnswered(c) ==
  c.op = "mount" /\ inflight'[c] = inflight[c] - 1

\* C13: app start with a persisted, unexpired token sets it as the API
\* client token and issues the who-am-I call; when that call is answered
\* with a user the session is Authenticated with the persisted token and
\* the Token Store record is unchanged.
C13_StartupVerifiesPersistedToken ==
  [][/\ (last'.op = "mount" /\ ~AbsentOrExpired) =>
          /\ apiToken' = ls["authToken"]
          /\ inflight' = Issue([op |-> "mount", tok |-> ls["authToken"]])
          /\ authState'.isLoading
          /\ ls' = ls
     /\ (last'.op = "mountResume" /\ MeConfirmed(last'.in)) =>
          /\ \E c \in Calls : MountCallAnswered(c) /\ authState'.token = c.tok
          /\ authState'.user # NoUser
          /\ authState'.isLoading = FALSE
          /\ ls' = ls]_vars
C13_Witness ==
  /\ last.op = "mountResume" /\ MeConfirmed(last.in)
  /\ ops = 0
  /\ isAuthenticated
  /\ authState.token = "tok1" /\ getItem(ls, "authToken") = "tok1"
  /\ apiToken = "tok1"

\* C14: app start with a token persisted under authToken only (no
\* authTimestamp): startup sets the persisted token as the API client token
\* and asks the backend who the user is, keeping the stored token, so that
\* a who-am-I answer with a user settles the session authenticated with the
\* persisted token, the profile without its password, isLoading false and
\* error null.
C14_StartupWithTokenOnly ==
  (last.op = "mount" /\ DOMAIN last.in.store = {"authToken"}) =>
     /\ inflight[[op |-> "mount", tok |-> last.in.store["authToken"]]] = 1
     /\ apiToken = last.in.store["authToken"]
     /\ ls = last.in.store
     /\ authState.isLoading

\* C15: app start with a persisted, unexpired token whose who-am-I call is
\* rejected or fails clears the Token Store and the API client token and
\* settles Unauthenticated with error null.
C15_StartupSilentExpiry ==
  (last.op = "mountResume" /\ MeFailed(last.in)) =>
     /\ DOMAIN ls = {}
     /\ apiToken = NULL
     /\ ~isAuthenticated
     /\ authState.user = NoUser /\ authState.token = NULL
     /\ authState.isLoading = FALSE
     /\ authState.error = NULL
C15_Witness ==
  /\ last.op = "mountResume"
  /\ last.in.kind = "http" /\ ~last.in.ok
  /\ ops = 0
  /\ DOMAIN ls = {} /\ apiToken = NULL /\ authState = cleared

\* C16: from an Authenticated session, a refreshUser() whose who-am-I call
\* fails or returns non-2xx leaves the session Unauthenticated (user and
\* token null) with the Token Store and the API client token cleared.
C16_RefreshFailureClears ==
  (last.op = "refreshResume" /\ last.auth /\ MeFailed(last.in)) =>
     /\ authState.user = NoUser /\ authState.token = NULL
     /\ DOMAIN ls = {}
     /\ apiToken = NULL
C16_Witness ==
  /\ last.op = "refreshResume" /\ last.auth
  /\ last.in.kind = "http" /\ ~last.in.ok
  /\ authState.user = NoUser /\ authState.token = NULL
  /\ DOMAIN ls = {} /\ apiToken = NULL

\* C17: from an Authenticated session, a successful refreshUser() replaces
\* only user: the session token after the response is applied equals the
\* session token immediately before, and the Token Store record and the
\* API client token are unchanged.
C17_RefreshKeepsToken ==
  [][(/\ last'.op = "refreshResume" /\ MeConfirmed(last'.in)
      /\ last'.from /\ isAuthenticated) =>
       /\ authState'.token = authState.token
       /\ ls' = ls
       /\ apiToken' = apiToken]_vars

\* C18: setError(msg) and clearError() change only the error field: user,
\* token and isLoading are the same after the call as before, also while
\* another operation is in flight, and the Token Store, the API client
\* token and the calls in flight are untouched.
C18_ErrorOnlyFrame ==
  [][last'.op \in {"setError", "clearError"} =>
       /\ authState'.user = authState.user
       /\ authState'.token = authState.token
       /\ authState'.isLoading = authState.isLoading
       /\ ls' = ls
       /\ apiToken' = apiToken
       /\ inflight' = inflight]_vars
C18_Witness ==
  /\ last.op = "setError"
  /\ InFlight > 0 /\ authState.isLoading
  /\ authState.error = "Session expired"

\* what a read of the token finds in durable storage
Stored == IF ~denied /\ "authToken" \in DOMAIN ls THEN ls["authToken"] ELSE NULL

\* C19 as stated: after save(x), get() returns x until the next clear() or
\* save(); after clear(), get() returns absent, and clear() on an empty
\* store changes nothing.
C19_RoundTrip ==
  [][/\ last'.op = "saveToken" => Stored' = last'.in.token
     /\ last'.op = "getToken" => last'.out = Stored
     /\ last'.op \notin {"saveToken", "clearToken"} => Stored' = Stored
     /\ last'.op = "clearToken" =>
          /\ Stored' = NULL
          /\ DOMAIN ls = {} => ls' = ls]_vars

\* C19, amended: after a save(x) whose write of the token succeeded, get()
\* returns x until the next clear() or save(); a save(x) whose write of the
\* token failed leaves what get() returns unchanged; after clear(), get()
\* returns absent, and clear() on an empty store changes nothing.
C19_RoundTripUnlessWriteFails ==
  [][/\ last'.op = "saveToken" =>
          Stored' = IF last'.in.fault = "first" THEN Stored ELSE last'.in.token
     /\ last'.op = "getToken" => last'.out = Stored
     /\ last'.op \notin {"saveToken", "clearToken"} => Stored' = Stored
     /\ last'.op = "clearToken" =>
          /\ Stored' = NULL
          /\ DOMAIN ls = {} => ls' = ls]_vars
C19_Witness ==
  /\ last.op = "getToken"
  /\ last.out = "tok2"
  /\ Stored = "tok2"

\* authToken and authTimestamp are both stored or both absent
BothOrNeither ==
  ("authToken" \in DOMAIN ls) <=> ("authTimestamp" \in DOMAIN ls)

\* C20: no save and no clear breaks the pairing of authToken and
\* authTimestamp: from a store where both keys are present or both absent,
\* every step leads to such a store, also when a storage write fails.
C20_KeysPaired ==
  [][BothOrNeither => BothOrNeither']_vars

\* C21: a save(token) whose storage write fails leaves the token not
\* persisted: an isExpired() call that follows the failed save reports
\* true, whatever record the store held before the save.
C21_FailedSaveReadsExpired ==
  (/\ last.op = "isTokenExpired"
   /\ last.after.op = "saveToken"
   /\ last.after.in.fault # "none") => last.out = TRUE

\* the request that the step issued
RequestIssued(c) == c.op = "request" /\ inflight' = Issue(c)

\* C22: a request issued by the API client carries Authorization: Bearer t
\* exactly when the client's token at that moment is t, and no
\* Authorization header when no token is set (null, or the empty string);
\* setToken and clearToken leave the requests in flight as they are, and
\* the request that is answered carries the headers it was issued with.
C22_BearerHeaderAtIssue ==
  [][/\ last'.op = "request" =>
          \E c \in Calls :
             /\ RequestIssued(c)
             /\ IF apiToken = NULL \/ apiToken = ""
                THEN "Authorization" \notin DOMAIN c.headers
                ELSE /\ "Authorization" \in DOMAIN c.headers
                     /\ c.headers["Authorization"] = <<"Bearer", apiToken>>
     /\ last'.op \in {"setToken", "clearToken"} => inflight' = inflight
     /\ last'.op = "response" =>
          \E c \in Calls :
             /\ c.op = "request" /\ inflight' = Settle(c)
             /\ c.headers = last'.in]_vars
C22_Witness ==
  /\ last.op = "clearToken"
  /\ apiToken = NULL
  /\ inflight[[op |-> "request",
               headers |-> [ContentType |-> "application/json",
                            Authorization |-> <<"Bearer", "tok1">>]]] = 1
  /\ inflight[[op |-> "request",
               headers |-> [ContentType |-> "application/json"]]] = 1

\* C23 as stated: when the login network call itself fails (the fetch
\* throws), login() sets error to the generic "unexpected error" message
\* and leaves user null, token null and isLoading false.
C23_NetworkFailureGenericError ==
  (last.op = "loginResume" /\ last.in.kind = "throw") =>
     /\ authState.error = "An unexpected error occurred"
     /\ authState.user = NoUser /\ authState.token = NULL
     /\ authState.isLoading = FALSE

\* C23, amended: when the login network call itself fails, login() sets
\* error to "Network error during login", the message of the failure
\* response that authenticateUser builds from the transport error, and
\* leaves user null, token null and isLoading false.
C23_NetworkFailureNetworkError ==
  (last.op = "loginResume" /\ last.in.kind = "throw") =>
     /\ authState.error = "Network error during login"
     /\ authState.user = NoUser /\ authState.token = NULL
     /\ authState.isLoading = FALSE
C23_Witness ==
  /\ last.op = "loginResume" /\ last.in.kind = "throw"
  /\ authState.error = "Network error during login"
  /\ ~isAuthenticated /\ ~authState.isLoading

\* C24: the error field takes a new non-null value only by a failed
\* login() or by setError(): every step of startup, of refreshUser and of
\* logout that settles on a failed backend call leaves error null, so a
\* silently expired session ends Unauthenticated with error null.
C24_ErrorOnlyFromLoginOrSetError ==
  [][/\ (authState'.error # NULL /\ authState'.error # authState.error) =>
          \/ last'.op = "setError"
          \/ last'.op = "loginThrow"
          \/ last'.op = "loginResume" /\ LoginFailed(last'.in)
     /\ (last'.op \in {"mountResume", "refreshResume"} /\ MeFailed(last'.in)) =>
          authState'.error = NULL /\ ~isAuthenticated'
     /\ last'.op \in {"mount", "logoutResume"} => authState'.error = NULL]_vars
C24_Witness ==
  /\ last.op = "refreshResume" /\ last.in.kind = "throw"
  /\ authState.error = NULL
  /\ ~isAuthenticated
  /\ InFlight = 0

\* the startup who-am-I call is pending
MountPending == \E c \in Calls : c.op = "mount" /\ inflight[c] > 0

\* the state of the session in the terms of the state table
Phase ==
  IF ~mounted THEN "Unresolved"
  ELSE IF MountPending THEN "Loading"
  ELSE IF isAuthenticated THEN "Authenticated"
  ELSE "Unauthenticated"

\* C25: the session changes state only by the transitions of the state
\* table: Unresolved is left only by app start, Loading only by the answer
\* to the startup who-am-I call, Unauthenticated becomes Authenticated only
\* by a successful login(), and Authenticated is left only through
\* logout() or refreshUser(); a login() that completes while the session
\* is Loading or Authenticated changes neither user nor token.
C25_OnlyTableTransitions ==
  [][/\ (Phase = "Unresolved" /\ Phase' # Phase) => last'.op = "mount"
     /\ (Phase = "Loading" /\ Phase' # Phase) => last'.op = "mountResume"
     /\ (Phase = "Unauthenticated" /\ Phase' = "Authenticated") =>
          last'.op = "loginResume" /\ ~LoginFailed(last'.in)
     /\ (Phase = "Authenticated" /\ Phase' # Phase) =>
          last'.op \in {"logoutResume", "refreshResume"}
     /\ (last'.op = "loginResume" /\ Phase \in {"Loading", "Authenticated"}) =>
          /\ authState'.user = authState.user
          /\ authState'.token = authState.token]_vars

\* C26: whenever the session is Authenticated and no operation is in
\* flight, the session token, the token in the Token Store and the API
\* client token are all equal.
C26_TokensAgreeWhenQuiet ==
  (isAuthenticated /\ InFlight = 0) =>
     /\ "authToken" \in DOMAIN ls
     /\ ls["authToken"] = authState.token
     /\ apiToken = authState.token

\* C27: whenever the session is Unauthenticated (user and token null)
\* after startup and no operation is in flight, the Token Store holds no
\* record and the API client holds no token.
C27_LoggedOutMeansNothingStored ==
  (/\ mounted /\ InFlight = 0
   /\ authState.user = NoUser /\ authState.token = NULL) =>
     /\ DOMAIN ls = {}
     /\ apiToken = NULL

\* C28: once logout() has completed, only a successful login() makes the
\* session Authenticated again: the step that follows a completed logout
\* and is the late answer to a who-am-I call leaves user and token null.
C28_LogoutIsFinal ==
  [][(logoutRun > 0 /\ isAuthenticated') =>
       last'.op = "loginResume" /\ ~LoginFailed(last'.in)]_vars

\* the token values the backend put into the login response
Issued(body) ==
  {Field(body, "access_token")}
    \cup (IF "user" \in DOMAIN body THEN {Prop(body.user, "token")} ELSE {})

\* C30: every token that a successful login() stores in the session, the
\* Token Store and the API client is a token of that login's response,
\* also when the response carries no access_token.
C30_OnlyIssuedTokens ==
  (/\ last.op = "loginResume" /\ ~LoginFailed(last.in)) =>
     /\ authState.token \in Issued(last.in.body) \ {NULL}
     /\ apiToken \in Issued(last.in.body) \ {NULL}
     /\ "authToken" \in DOMAIN ls => ls["authToken"] \in Issued(last.in.body) \ {NULL}

\* C29: when every issued backend call returns or fails, a session that is
\* loading (at construction, or after login() or refreshUser() started)
\* eventually has isLoading false, and whenever calls are in flight the
\* session eventually is at rest with no call in flight and isLoading
\* false.
C29_EventuallySettles ==
  /\ authState.isLoading ~> ~authState.isLoading
  /\ (InFlight > 0) ~> (InFlight = 0 /\ ~authState.isLoading)
C29_Witness ==
  /\ last.op = "logoutResume"
  /\ ops = MaxLiveOps
  /\ mounted /\ InFlight = 0
  /\ ~authState.isLoading

====
